---- MODULE Spec2Model ----
(***************************************************************************)
(* A model of the cure-8 virtual machine: the instruction decoder          *)
(* (src/src/instruction.rs) and the execution engine (src/src/machine.rs), *)
(* driven as main does (src/src/main.rs): new, load, run.                  *)
(*                                                                         *)
(* One iteration of the run loop is two steps, Fetch and Dispatch, so that *)
(* the state between fetching a word and executing its handler is visible. *)
(* Handlers are operators from a machine record to a machine record, which *)
(* lets a handler stop half way when an index or an addition panics.       *)
(***************************************************************************)
EXTENDS Integers, Sequences, FiniteSets, TLC

VARIABLES mem, regs, i, pc, sp, stack,
          status, at, instr, stdout, fetches, program, overflow_checks

vars == <<mem, regs, i, pc, sp, stack,
          status, at, instr, stdout, fetches, program, overflow_checks>>

(* ---------------------------------------------------------------- bounds *)
\* number of fetches a behaviour of the model may perform
MaxSteps == 20
\* length, in words, of the programs built freely from SampleWords
MaxProgLen == 2
\* number of fetches a behaviour of LongSpec may perform
MaxLongSteps == 250

(* ------------------------------------------------------ program constants *)
MemSize == 4096
NumRegs == 16
StackSize == 16
ProgStart == 512
FlagReg == 15

U8 == 256
U16 == 65536

(* ------------------------------------------------------- bitwise helpers *)
RECURSIVE BitAnd(_, _)
BitAnd(a, b) ==
    IF a = 0 \/ b = 0 THEN 0
    ELSE 2 * BitAnd(a \div 2, b \div 2) + (IF a % 2 = 1 /\ b % 2 = 1 THEN 1 ELSE 0)

RECURSIVE BitOr(_, _)
BitOr(a, b) ==
    IF a = 0 THEN b
    ELSE IF b = 0 THEN a
    ELSE 2 * BitOr(a \div 2, b \div 2) + (IF a % 2 = 1 \/ b % 2 = 1 THEN 1 ELSE 0)

RECURSIVE BitXor(_, _)
BitXor(a, b) ==
    IF a = 0 THEN b
    ELSE IF b = 0 THEN a
    ELSE 2 * BitXor(a \div 2, b \div 2) + (IF a % 2 # b % 2 THEN 1 ELSE 0)

\* v << k and v >> k on a value of the given width (modulus 2^width)
Shl(v, k, modulus) == (v * (2 ^ k)) % modulus
Shr(v, k) == v \div (2 ^ k)

(* ------------------------------------------------------------ Instruction *)
opcode(w) == Shr(w, 12)
nnn(w) == BitAnd(w, 4095)
x(w) == Shr(BitAnd(w, 3840), 8) % U8
\* y with the shift of x
y_shifted_as_x(w) == Shr(BitAnd(w, 240), 8) % U8
y(w) == Shr(BitAnd(w, 240), 4) % U8
kk(w) == BitAnd(w, 255) % U8
n(w) == BitAnd(w, 15) % U8
\* as_bytes in little-endian order
as_bytes_low_first(w) == <<BitAnd(w, 255) % U8, Shr(w, 8) % U8>>
as_bytes(w) == <<Shr(w, 8) % U8, BitAnd(w, 255) % U8>>
from_bytes(bytes) == BitOr(Shl(bytes[1], 8, U16), bytes[2])

(* ------------------------------------------------------------ formatting *)
HexDigits == <<"0", "1", "2", "3", "4", "5", "6", "7",
               "8", "9", "A", "B", "C", "D", "E", "F">>

\* "{:X}": upper-case hexadecimal, no padding
RECURSIVE Hex(_)
Hex(v) ==
    IF v < 16 THEN <<HexDigits[v + 1]>>
    ELSE Hex(v \div 16) \o <<HexDigits[(v % 16) + 1]>>

ExitingText == <<"E", "x", "i", "t", "i", "n", "g", ".", ".", ".", "\n">>
UnknownText == <<"U", "n", "k", "n", "o", "w", "n", " ", "i", "n", "s", "t",
                 "r", "u", "c", "t", "i", "o", "n", ":", " ">>

(* ----------------------------------------------------------------- memory *)
\* mem: [u8; 4096] is kept as the map of its non-zero bytes; every address
\* of 0 .. MemSize - 1 outside the map holds 0.  Writes keep the map in this
\* form, so two memories are equal exactly when their maps are.
MemRead(mm, a) == IF a \in DOMAIN mm THEN mm[a] ELSE 0

MemWrite(mm, a, v) ==
    IF v = 0 THEN [b \in DOMAIN mm \ {a} |-> mm[b]]
    ELSE [b \in DOMAIN mm \cup {a} |-> IF b = a THEN v ELSE mm[b]]

(* ------------------------------------------------------ the machine record *)
\* the fields of Machine, with the process's fate and its standard output
M == [mem |-> mem, regs |-> regs, i |-> i, pc |-> pc, sp |-> sp,
      stack |-> stack, status |-> status, stdout |-> stdout,
      overflow_checks |-> overflow_checks]

\* a panic unwinds out of run: the writes made so far stay, nothing follows
Panic(m) == [m EXCEPT !.status = "Faulted"]

Running(m) == m.status = "Running"

Emit(m, text) == [m EXCEPT !.stdout = @ \o text]

\* Machine::new
new == [mem |-> [a \in {} |-> 0],
        regs |-> [r \in 0..(NumRegs - 1) |-> 0],
        i |-> 0, pc |-> ProgStart, sp |-> 0,
        stack |-> [s \in 0..(StackSize - 1) |-> 0]]

\* load with unchecked indexing: every byte is written, wherever it lands
load_unchecked(m, prog) ==
    [m EXCEPT !.mem = LET image == ProgStart..(ProgStart + Len(prog) - 1)
                          byte(a) == IF a \in image THEN prog[a - ProgStart + 1]
                                     ELSE MemRead(m.mem, a)
                      IN  [a \in { b \in image \cup DOMAIN m.mem : byte(b) # 0 }
                              |-> byte(a)],
              !.status = "Running"]

\* Machine::load: the loop writes in address order and panics at the first
\* index outside mem, leaving every byte written before it in place
load(m, prog) ==
    [m EXCEPT !.mem = LET image == { a \in ProgStart..(MemSize - 1) :
                                         a - ProgStart < Len(prog) }
                          byte(a) == IF a \in image THEN prog[a - ProgStart + 1]
                                     ELSE MemRead(m.mem, a)
                      IN  [a \in { b \in image \cup DOMAIN m.mem : byte(b) # 0 }
                              |-> byte(a)],
              !.status = IF Len(prog) + ProgStart <= MemSize
                         THEN "Running" ELSE "Faulted"]

(* --------------------------------------------------------------- handlers *)
\* pc += 2 on the u16 program counter
skip(m) ==
    IF m.pc + 2 >= U16 /\ m.overflow_checks THEN Panic(m)
    ELSE [m EXCEPT !.pc = (m.pc + 2) % U16]

\* ret that decrements sp before it reads the slot
ret_pre_decrement(m) ==
    IF m.sp = 0 /\ m.overflow_checks THEN Panic(m)
    ELSE LET m1 == [m EXCEPT !.sp = (m.sp - 1) % U8]
         IN  IF m1.sp >= StackSize THEN Panic(m1)
             ELSE [m1 EXCEPT !.pc = m.stack[m1.sp]]

\* 0x0000
ret(m) ==
    IF m.sp >= StackSize THEN Panic(m)
    ELSE LET m1 == [m EXCEPT !.pc = m.stack[m.sp]]
         IN  IF m.sp = 0 /\ m.overflow_checks THEN Panic(m1)
             ELSE [m1 EXCEPT !.sp = (m.sp - 1) % U8]

\* 0x1nnn
jmp(m, addr) == [m EXCEPT !.pc = addr]

\* call that stores the return address before it increments sp
call_post_increment(m, addr) ==
    IF m.sp >= StackSize THEN Panic(m)
    ELSE LET m1 == [m EXCEPT !.stack[m.sp] = m.pc]
         IN  IF m.sp + 1 >= U8 /\ m.overflow_checks THEN Panic(m1)
             ELSE [m1 EXCEPT !.sp = (m.sp + 1) % U8, !.pc = addr]

\* 0x2nnn
call(m, addr) ==
    IF m.sp + 1 >= U8 /\ m.overflow_checks THEN Panic(m)
    ELSE LET m1 == [m EXCEPT !.sp = (m.sp + 1) % U8]
         IN  IF m1.sp >= StackSize THEN Panic(m1)
             ELSE [m1 EXCEPT !.stack[m1.sp] = m.pc, !.pc = addr]

\* 0x3xkk
eq(m, rx, byte) == IF m.regs[rx] = byte THEN skip(m) ELSE m

\* 0x4xkk
neq(m, rx, byte) == IF m.regs[rx] # byte THEN skip(m) ELSE m

\* 0x5xy0
eq_xy(m, rx, ry) == IF m.regs[rx] = m.regs[ry] THEN skip(m) ELSE m

\* 0x6xkk
ld(m, rx, byte) == [m EXCEPT !.regs[rx] = byte]

\* add that reports the carry in the flag register, as add_xy does
add_with_carry(m, rx, byte) ==
    LET sum == m.regs[rx] + byte
        m1 == [m EXCEPT !.regs[rx] = sum % U8]
    IN  [m1 EXCEPT !.regs[FlagReg] = IF sum >= U8 THEN 1 ELSE 0]

\* 0x7xkk
add(m, rx, byte) == [m EXCEPT !.regs[rx] = (m.regs[rx] + byte) % U8]

\* 0x8xy0
ld_xy(m, rx, ry) == [m EXCEPT !.regs[rx] = m.regs[ry]]

\* 0x8xy1
or(m, rx, ry) == [m EXCEPT !.regs[rx] = BitOr(m.regs[rx], m.regs[ry])]

\* 0x8xy2
and(m, rx, ry) == [m EXCEPT !.regs[rx] = BitAnd(m.regs[rx], m.regs[ry])]

\* 0x8xy3
xor(m, rx, ry) == [m EXCEPT !.regs[rx] = BitXor(m.regs[rx], m.regs[ry])]

\* add_xy that forgets the carry flag
add_xy_no_flag(m, rx, ry) ==
    [m EXCEPT !.regs[rx] = (m.regs[rx] + m.regs[ry]) % U8]

\* 0x8xy4
add_xy(m, rx, ry) ==
    LET sum == m.regs[rx] + m.regs[ry]
        m1 == [m EXCEPT !.regs[rx] = sum % U8]
    IN  [m1 EXCEPT !.regs[FlagReg] = IF sum >= U8 THEN 1 ELSE 0]

\* sub_xy with the flag set on borrow instead of on no borrow
sub_xy_flag_on_borrow(m, rx, ry) ==
    LET diff == m.regs[rx] - m.regs[ry]
        m1 == [m EXCEPT !.regs[rx] = diff % U8]
    IN  [m1 EXCEPT !.regs[FlagReg] = IF diff < 0 THEN 1 ELSE 0]

\* 0x8xy5
sub_xy(m, rx, ry) ==
    LET diff == m.regs[rx] - m.regs[ry]
        m1 == [m EXCEPT !.regs[rx] = diff % U8]
    IN  [m1 EXCEPT !.regs[FlagReg] = IF diff < 0 THEN 0 ELSE 1]

\* shr that shifts before it takes the flag
shr_flag_after(m, rx) ==
    LET m1 == [m EXCEPT !.regs[rx] = Shr(m.regs[rx], 1)]
    IN  [m1 EXCEPT !.regs[FlagReg] = BitAnd(m1.regs[rx], 1)]

\* 0x8xy6
shr(m, rx) ==
    LET m1 == [m EXCEPT !.regs[FlagReg] = BitAnd(m.regs[rx], 1)]
    IN  [m1 EXCEPT !.regs[rx] = Shr(m1.regs[rx], 1)]

\* 0x8xy7
subn_xy(m, rx, ry) ==
    LET diff == m.regs[ry] - m.regs[rx]
        m1 == [m EXCEPT !.regs[rx] = diff % U8]
    IN  [m1 EXCEPT !.regs[FlagReg] = IF diff < 0 THEN 0 ELSE 1]

\* 0x8xyE
shl(m, rx) ==
    LET m1 == [m EXCEPT !.regs[FlagReg] = Shr(m.regs[rx], 7)]
    IN  [m1 EXCEPT !.regs[rx] = Shl(m1.regs[rx], 1, U8)]

\* neq_xy with the comparison of eq_xy
neq_xy_as_eq(m, rx, ry) == IF m.regs[rx] = m.regs[ry] THEN skip(m) ELSE m

\* 0x9xy0
neq_xy(m, rx, ry) == IF m.regs[rx] # m.regs[ry] THEN skip(m) ELSE m

\* 0xAnnn
ld_i(m, addr) == [m EXCEPT !.i = addr]

\* 0xBnnn
jmp_v0(m, addr) ==
    IF addr + m.regs[0] >= U16 /\ m.overflow_checks THEN Panic(m)
    ELSE [m EXCEPT !.pc = (addr + m.regs[0]) % U16]

\* 0xCx00
add_i(m, rx) ==
    IF m.i + m.regs[rx] >= U16 /\ m.overflow_checks THEN Panic(m)
    ELSE [m EXCEPT !.i = (m.i + m.regs[rx]) % U16]

\* (self.i + i as u16) as usize, used as an index into mem: the u16 addition
\* may overflow and the index may lie outside mem; either one panics
IndexOk(m, k) ==
    /\ (m.i + k < U16 \/ ~m.overflow_checks)
    /\ (m.i + k) % U16 < MemSize

Index(m, k) == (m.i + k) % U16

\* 0xDx00: the loop runs k = 2, 1, 0
RECURSIVE bcd_loop(_, _, _)
bcd_loop(m, val, k) ==
    IF k < 0 THEN m
    ELSE IF ~IndexOk(m, k) THEN Panic(m)
    ELSE bcd_loop([m EXCEPT !.mem = MemWrite(@, Index(m, k), val % 10)],
                  val \div 10, k - 1)

\* bcd whose loop is not reversed: the ones digit lands at index
bcd_not_reversed(m, rx) ==
    IF ~IndexOk(m, 2) THEN Panic(m)
    ELSE LET v == m.regs[rx]
         IN  [m EXCEPT !.mem = MemWrite(MemWrite(MemWrite(@,
                                   Index(m, 0), v % 10),
                                   Index(m, 1), (v \div 10) % 10),
                                   Index(m, 2), v \div 100)]

bcd(m, rx) == bcd_loop(m, m.regs[rx], 2)

\* 0xEx00: the loop runs k = 0 .. x
RECURSIVE ld_0x_loop(_, _, _)
ld_0x_loop(m, rx, k) ==
    IF k > rx THEN m
    ELSE IF ~IndexOk(m, k) THEN Panic(m)
    ELSE ld_0x_loop([m EXCEPT !.mem = MemWrite(@, Index(m, k), m.regs[k])],
                    rx, k + 1)

\* ld_0x with an exclusive upper bound: registers 0 .. x - 1
ld_0x_exclusive(m, rx) == ld_0x_loop(m, rx - 1, 0)

ld_0x(m, rx) == ld_0x_loop(m, rx, 0)

\* 0xFx00
RECURSIVE ld_x0_loop(_, _, _)
ld_x0_loop(m, rx, k) ==
    IF k > rx THEN m
    ELSE IF ~IndexOk(m, k) THEN Panic(m)
    ELSE ld_x0_loop([m EXCEPT !.regs[k] = MemRead(m.mem, Index(m, k))],
                    rx, k + 1)

ld_x0(m, rx) == ld_x0_loop(m, rx, 0)

\* 0xFx01
RECURSIVE out_loop(_, _, _)
out_loop(m, rx, k) ==
    IF k > rx THEN m
    ELSE out_loop(Emit(m, Hex(m.regs[k]) \o <<" ">>), rx, k + 1)

\* out with an exclusive upper bound: registers 0 .. x - 1
out_exclusive(m, rx) == out_loop(m, rx - 1, 0)

out(m, rx) == out_loop(m, rx, 0)

\* 0xFx02
RECURSIVE out_i_loop(_, _, _)
out_i_loop(m, rx, k) ==
    IF k > rx THEN m
    ELSE IF ~IndexOk(m, k) THEN Panic(m)
    ELSE out_i_loop(Emit(m, Hex(MemRead(m.mem, Index(m, k))) \o <<" ">>), rx, k + 1)

out_i(m, rx) == out_i_loop(m, rx, 0)

\* 0xFFFF: process::exit(1)
exit(m) == [Emit(m, ExitingText) EXCEPT !.status = "Halted"]

err(m, w) == Emit(m, UnknownText \o Hex(w) \o <<"\n">>)

(* ------------------------------------------------------ fetch and dispatch *)
\* the word fetch reads when both of its indexes are inside mem
fetched(m) == from_bytes(<<MemRead(m.mem, m.pc), MemRead(m.mem, m.pc + 1)>>)

\* fetch whose second byte is read without a bounds check
fetch_unchecked_low_byte(m) ==
    IF m.pc >= MemSize THEN Panic(m)
    ELSE Emit([m EXCEPT !.pc = m.pc + 2], Hex(fetched(m)) \o <<"\n">>)

fetch(m) ==
    IF m.pc >= MemSize THEN Panic(m)
    ELSE IF m.pc + 1 >= MemSize THEN Panic(m)
    ELSE Emit([m EXCEPT !.pc = m.pc + 2], Hex(fetched(m)) \o <<"\n">>)

\* the match of dispatch, on the word fetch returned
dispatch(m, w) ==
    CASE opcode(w) = 0 -> ret(m)
      [] opcode(w) = 1 -> jmp(m, nnn(w))
      [] opcode(w) = 2 -> call(m, nnn(w))
      [] opcode(w) = 3 -> eq(m, x(w), kk(w))
      [] opcode(w) = 4 -> neq(m, x(w), kk(w))
      [] opcode(w) = 5 -> eq_xy(m, x(w), y(w))
      [] opcode(w) = 6 -> ld(m, x(w), kk(w))
      [] opcode(w) = 7 -> add(m, x(w), kk(w))
      [] opcode(w) = 8 ->
            CASE n(w) = 0 -> ld_xy(m, x(w), y(w))
              [] n(w) = 1 -> or(m, x(w), y(w))
              [] n(w) = 2 -> and(m, x(w), y(w))
              [] n(w) = 3 -> xor(m, x(w), y(w))
              [] n(w) = 4 -> add_xy(m, x(w), y(w))
              [] n(w) = 5 -> sub_xy(m, x(w), y(w))
              [] n(w) = 6 -> shr(m, x(w))
              [] n(w) = 7 -> subn_xy(m, x(w), y(w))
              [] n(w) = 14 -> shl(m, x(w))
              [] OTHER -> err(m, w)
      [] opcode(w) = 9 -> neq_xy(m, x(w), y(w))
      [] opcode(w) = 10 -> ld_i(m, nnn(w))
      [] opcode(w) = 11 -> jmp_v0(m, nnn(w))
      [] opcode(w) = 12 -> add_i(m, x(w))
      [] opcode(w) = 13 -> bcd(m, x(w))
      [] opcode(w) = 14 -> ld_0x(m, x(w))
      [] opcode(w) = 15 ->
            CASE n(w) = 0 -> ld_x0(m, x(w))
              [] n(w) = 1 -> out(m, x(w))
              [] n(w) = 2 -> out_i(m, x(w))
              [] n(w) = 15 -> exit(m)
              [] OTHER -> err(m, w)
      [] OTHER -> err(m, w)

(* ------------------------------------------------------------- programs *)
\* the instruction layout of instruction.rs: opcode, x, y, n / kk / nnn
W(op, rx, ry, sub) == op * 4096 + rx * 256 + ry * 16 + sub
WK(op, rx, byte) == op * 4096 + rx * 256 + byte
WN(op, addr) == op * 4096 + addr

\* a program image: the big-endian bytes of a sequence of words
RECURSIVE Asm(_)
Asm(words) ==
    IF words = <<>> THEN <<>> ELSE as_bytes(Head(words)) \o Asm(Tail(words))

RegSamples == {0, 1, 14, 15}
ByteSamples == {0, 1, 127, 128, 255}

\* the instructions tried on two loaded registers: the whole 0x8 family,
\* the immediate forms and the register skips with n = 0 and n = 1
Ops(rx, ry, byte) ==
    {W(8, rx, ry, sub) : sub \in 0..15}
      \cup {WK(3, rx, byte), WK(4, rx, byte), WK(7, rx, byte)}
      \cup {W(5, rx, ry, 0), W(5, rx, ry, 1), W(9, rx, ry, 0), W(9, rx, ry, 1)}

\* load a into reg x, b into reg y, then one instruction on them
AluPrograms ==
    UNION { UNION { { Asm(<<WK(6, rx, a), WK(6, ry, b), w>>) : w \in Ops(rx, ry, b) }
                    : a \in ByteSamples, b \in ByteSamples }
            : rx \in RegSamples, ry \in RegSamples }

\* values with zero and non-zero decimal digits in every position
DigitSamples == ByteSamples \cup {9, 10, 99, 100, 199, 200, 205}

\* index values: page zero, the program itself, free memory, the last bytes
AddrSamples == {0, 512, 1536, 4080, 4093, 4094}

\* load v into reg x, point the index register, take the bcd of reg x
BcdPrograms ==
    { Asm(<<WK(6, t[1], t[2]), WN(10, t[3]), W(13, t[1], 0, 0)>>) :
        t \in RegSamples \X DigitSamples \X AddrSamples }

\* load a into reg 0 and b into reg x, point the index register, store
\* registers 0 .. x and load them back at once
BlockPrograms ==
    { Asm(<<WK(6, 0, t[2]), WK(6, t[1], t[3]), WN(10, t[4]),
            W(14, t[1], 0, 0), W(15, t[1], 0, 0)>>) :
        t \in RegSamples \X ByteSamples \X ByteSamples \X AddrSamples }

\* the program of main.rs
ScenarioA == <<96, 17, 97, 34, 128, 20, 240, 1, 255, 255>>

NamedPrograms ==
    { Asm(ws) : ws \in {
        \* call a subroutine that returns to a halt
        <<\H2206, \HFFFF, \HFFFF, \H0000>>,
        \* a call inside a call; each returns to the word after its call
        <<\H2204, \HFFFF, \H2208, \H0000, \H0000>>,
        \* unbounded recursion
        <<\H2200>>,
        \* jump to the last byte of memory, and past it through reg 0
        <<\H1FFF>>,
        <<\H60FF, \HBFFF>>,
        \* write a skip into the last word of memory and run it
        <<\HAFFE, \H6030, \H6100, \HE100, \H1FFE>>,
        <<\HAFFE, \H6040, \H6100, \HE100, \H1FFE>>,
        \* bcd of 205 at 0x600, printed
        <<\H60CD, \HA600, \HD000, \HF202, \HFFFF>>,
        \* store two registers, clear them, load them back, print
        <<\H6011, \H6122, \HA700, \HE100, \H6000, \H6100, \HF100, \HF101, \HFFFF>>,
        \* indexed accesses that leave memory
        <<\H60FF, \HAFFF, \HC000, \HE000>>,
        <<\HAFFE, \HE200>>,
        <<\HAFFE, \HD000>>,
        <<\HAFFE, \HF200>>,
        <<\HAFFE, \HF202>>,
        \* words of the 0xF family
        <<\HF003, \HF10A, \HF00F>>,
        <<\HF12F>> } }

SampleWords ==
    { \H0000, \H1200, \H2204, \H3000, \H4000, \H5010, \H6001, \H7001,
      \H8014, \H9010, \HAFFF, \HB204, \HC000, \HD000, \HE100, \HF100,
      \HF101, \HF102, \HF003, \HF00F, \HFFFF }

RECURSIVE WordSeqs(_)
WordSeqs(len) ==
    IF len = 0 THEN {<<>>}
    ELSE LET shorter == WordSeqs(len - 1)
         IN  shorter \cup { Append(ws, w) : ws \in shorter, w \in SampleWords }

GenericPrograms == { Asm(ws) : ws \in WordSeqs(MaxProgLen) }

\* reg 0 = 255, index = 0xFFF, then 240 times index += reg 0 in straight
\* line (index = 65295), then index += last and one indexed instruction
IndexClimb(last, w) ==
    Asm(<<\H60FF, \HAFFF>> \o [k \in 1..240 |-> \HC000]
          \o <<WK(6, 1, last), \HC100, w>>)

\* index = 65534 and 65535, followed by each indexed instruction
LongPrograms ==
    { IndexClimb(t[1], t[2]) :
        t \in {239, 240} \X {\HD000, \HE000, \HE100, \HF000, \HF102} }

\* every image of one word: every pair of bytes (hi, lo)
BytePairs == { <<t[1], t[2]>> : t \in (0..(U8 - 1)) \X (0..(U8 - 1)) }

\* the largest image that fits, ending in a halt at the last word of memory
FullImage ==
    [k \in 1..(MemSize - ProgStart) |->
        IF k > MemSize - ProgStart - 2 THEN 255 ELSE 0]

\* one byte more than fits
OversizedImage == [k \in 1..(MemSize - ProgStart + 1) |-> 255]

Programs ==
    {ScenarioA, FullImage, OversizedImage} \cup AluPrograms \cup BcdPrograms
      \cup BlockPrograms
      \cup NamedPrograms \cup GenericPrograms

(* ---------------------------------------------------------------- actions *)
Commit(r) ==
    /\ mem' = r.mem
    /\ regs' = r.regs
    /\ i' = r.i
    /\ pc' = r.pc
    /\ sp' = r.sp
    /\ stack' = r.stack
    /\ status' = r.status
    /\ stdout' = r.stdout

\* main: Machine::new(), before load; the build fixes overflow checking
Init ==
    /\ mem = new.mem
    /\ regs = new.regs
    /\ i = new.i
    /\ pc = new.pc
    /\ sp = new.sp
    /\ stack = new.stack
    /\ status = "New"
    /\ at = "fetch"
    /\ instr = 0
    /\ stdout = <<>>
    /\ fetches = 0
    /\ program = <<>>
    /\ overflow_checks \in BOOLEAN

\* main: machine.load(&[...]); machine.run() is entered when load returns
LoadFrom(progs) ==
    /\ status = "New"
    /\ \E prog \in progs :
          /\ Commit(load(M, prog))
          /\ program' = prog
    /\ UNCHANGED <<at, instr, fetches, overflow_checks>>

Load == LoadFrom(Programs)

\* the program of main and the hand-written programs only
LoadNamed == LoadFrom({ScenarioA} \cup NamedPrograms)

\* dispatch, first half: let instr = self.fetch()
FetchUpTo(limit) ==
    /\ status = "Running"
    /\ at = "fetch"
    /\ fetches < limit
    /\ LET r == fetch(M)
       IN  /\ Commit(r)
           /\ instr' = IF Running(r) THEN fetched(M) ELSE instr
           /\ at' = IF Running(r) THEN "execute" ELSE at
    /\ fetches' = fetches + 1
    /\ UNCHANGED <<program, overflow_checks>>

Fetch == FetchUpTo(MaxSteps)

\* dispatch, second half: the match on instr and the handler it selects
Dispatch ==
    /\ status = "Running"
    /\ at = "execute"
    /\ Commit(dispatch(M, instr))
    /\ at' = "fetch"
    /\ UNCHANGED <<instr, fetches, program, overflow_checks>>

Next == Load \/ Fetch \/ Dispatch

Spec == Init /\ [][Next]_vars

NextNamed == LoadNamed \/ Fetch \/ Dispatch

\* main calls load and then run, and run is an unconditional loop: a step
\* that can be taken is eventually taken
FairSpec == Init /\ [][NextNamed]_vars /\ WF_vars(NextNamed)

\* every 16-bit word, loaded as the first instruction of the program
LoadWord == LoadFrom(BytePairs)

NextWord == LoadWord \/ Fetch \/ Dispatch

WordSpec == Init /\ [][NextWord]_vars

\* the long straight-line programs, run to their end
LoadLong == LoadFrom(LongPrograms)

FetchLong == FetchUpTo(MaxLongSteps)

NextLong == LoadLong \/ FetchLong \/ Dispatch

LongSpec == Init /\ [][NextLong]_vars

TypeOK ==
    /\ DOMAIN mem \subseteq 0..(MemSize - 1)
    /\ \A a \in DOMAIN mem : mem[a] \in 1..(U8 - 1)
    /\ regs \in [0..(NumRegs - 1) -> 0..(U8 - 1)]
    /\ i \in 0..(U16 - 1)
    /\ pc \in 0..(U16 - 1)
    /\ sp \in 0..(U8 - 1)
    /\ stack \in [0..(StackSize - 1) -> 0..(U16 - 1)]
    /\ status \in {"New", "Running", "Halted", "Faulted"}
    /\ at \in {"fetch", "execute"}
    /\ instr \in 0..(U16 - 1)
    /\ fetches \in 0..MaxLongSteps

(* ------------------------------------------------------------ properties *)
\* the handler selected by instr is about to run; pc is already advanced
Executing == status = "Running" /\ at = "execute"

\* a handler has run on instr and the loop is back at its fetch
Executed == at = "fetch" /\ fetches > 0 /\ status = "Running"

\* C1, as stated: add-reg (8xy4) leaves reg[x] = (a + b) mod 256 and
\* reg[15] = 1 if a + b >= 256, 0 otherwise, for every x and y in 0..15.
AddRegAllX ==
    [][ (Executing /\ opcode(instr) = 8 /\ n(instr) = 4) =>
          LET a == regs[x(instr)]
              b == regs[y(instr)]
          IN  /\ regs'[x(instr)] = (a + b) % 256
              /\ regs'[15] = IF a + b >= 256 THEN 1 ELSE 0 ]_vars

\* C1, amended: add-reg (8xy4) leaves reg[15] = 1 if a + b >= 256 and 0
\* otherwise for every x and y in 0..15, and leaves reg[x] = (a + b) mod 256
\* for every x in 0..14; no other register changes.
AddRegCarry ==
    [][ (Executing /\ opcode(instr) = 8 /\ n(instr) = 4) =>
          LET a == regs[x(instr)]
              b == regs[y(instr)]
          IN  /\ regs'[15] = IF a + b >= 256 THEN 1 ELSE 0
              /\ x(instr) # 15 => regs'[x(instr)] = (a + b) % 256
              /\ \A r \in 0..14 : r # x(instr) => regs'[r] = regs[r] ]_vars

\* 128 + 255 has wrapped to 127 in reg x and set the flag
AddRegWrapped ==
    /\ Executed /\ opcode(instr) = 8 /\ n(instr) = 4
    /\ x(instr) \notin {15, y(instr)}
    /\ regs[x(instr)] = 127 /\ regs[y(instr)] = 255 /\ regs[15] = 1

\* C2, as stated: sub-reg (8xy5) leaves reg[x] = (a - b) mod 256 and
\* reg[15] = 1 iff a >= b; subn-reg (8xy7) leaves reg[x] = (b - a) mod 256
\* and reg[15] = 1 iff b >= a; for every x and y in 0..15.
SubRegAllX ==
    [][ (Executing /\ opcode(instr) = 8 /\ n(instr) \in {5, 7}) =>
          LET a == regs[x(instr)]
              b == regs[y(instr)]
          IN  IF n(instr) = 5
              THEN /\ regs'[x(instr)] = (a - b) % 256
                   /\ regs'[15] = 1 <=> a >= b
                   /\ regs'[15] \in {0, 1}
              ELSE /\ regs'[x(instr)] = (b - a) % 256
                   /\ regs'[15] = 1 <=> b >= a
                   /\ regs'[15] \in {0, 1} ]_vars

\* C2, amended: for every x and y in 0..15, sub-reg (8xy5) leaves
\* reg[15] = 1 if a >= b and 0 otherwise, and subn-reg (8xy7) leaves
\* reg[15] = 1 if b >= a and 0 otherwise; for every x in 0..14, sub-reg
\* leaves reg[x] = (a - b) mod 256 and subn-reg leaves reg[x] = (b - a) mod
\* 256; no other register changes.
SubRegBorrow ==
    [][ (Executing /\ opcode(instr) = 8 /\ n(instr) \in {5, 7}) =>
          LET a == regs[x(instr)]
              b == regs[y(instr)]
              d == IF n(instr) = 5 THEN a - b ELSE b - a
          IN  /\ regs'[15] = IF d >= 0 THEN 1 ELSE 0
              /\ x(instr) # 15 => regs'[x(instr)] = d % 256
              /\ \A r \in 0..14 : r # x(instr) => regs'[r] = regs[r] ]_vars

\* sub-reg has computed 1 - 128, which borrows: reg x = 129 and the flag is 0
SubRegBorrowed ==
    /\ Executed /\ opcode(instr) = 8 /\ n(instr) = 5
    /\ x(instr) \notin {15, y(instr)} /\ y(instr) # 15
    /\ regs[x(instr)] = 129 /\ regs[y(instr)] = 128 /\ regs[15] = 0

\* C3, as stated: shift-right (8xy6) leaves reg[15] = v mod 2 and
\* reg[x] = v div 2, shift-left (8xyE) leaves reg[15] = v div 128 and
\* reg[x] = (2 * v) mod 256, for every x in 0..15.
ShiftAllX ==
    [][ (Executing /\ opcode(instr) = 8 /\ n(instr) \in {6, 14}) =>
          LET v == regs[x(instr)]
          IN  IF n(instr) = 6
              THEN regs'[15] = v % 2 /\ regs'[x(instr)] = v \div 2
              ELSE regs'[15] = v \div 128 /\ regs'[x(instr)] = (2 * v) % 256 ]_vars

\* C3, amended: for every x in 0..14, shift-right (8xy6) leaves
\* reg[15] = v mod 2 and reg[x] = v div 2, and shift-left (8xyE) leaves
\* reg[15] = v div 128 and reg[x] = (2 * v) mod 256; no other register
\* changes.  For x = 15 the flag is written first and then shifted itself:
\* shift-right leaves reg[15] = 0, shift-left leaves reg[15] = 2 * (v div 128).
ShiftFlag ==
    [][ (Executing /\ opcode(instr) = 8 /\ n(instr) \in {6, 14}) =>
          LET v == regs[x(instr)]
              right == n(instr) = 6
          IN  /\ x(instr) # 15 =>
                    /\ regs'[15] = IF right THEN v % 2 ELSE v \div 128
                    /\ regs'[x(instr)] = IF right THEN v \div 2 ELSE (2 * v) % 256
              /\ x(instr) = 15 =>
                    regs'[15] = IF right THEN 0 ELSE 2 * (v \div 128)
              /\ \A r \in 0..14 : r # x(instr) => regs'[r] = regs[r] ]_vars

\* shift-left of 255 has left 254 in reg x and the shifted-out 1 in the flag
ShiftedLeft ==
    /\ Executed /\ opcode(instr) = 8 /\ n(instr) = 14
    /\ x(instr) # 15 /\ regs[x(instr)] = 254 /\ regs[15] = 1

\* C4: a skip (3xkk, 4xkk, 5xy0, 9xy0) fetched at p leaves pc = p + 4 when
\* its predicate holds and pc = p + 2 when not, and leaves registers,
\* memory, index, sp and stack unchanged.  Fetch takes pc from p to p + 2,
\* the handler adds 2 more exactly when the predicate holds.
SkipAdvance ==
    [][ /\ (status = "Running" /\ at = "fetch" /\ status' = "Running") =>
              pc' = pc + 2 /\ UNCHANGED <<regs, mem, i, sp, stack>>
        /\ (/\ Executing
            /\ \/ opcode(instr) \in {3, 4}
               \/ opcode(instr) \in {5, 9} /\ n(instr) = 0) =>
              LET vx == regs[x(instr)]
                  holds == CASE opcode(instr) = 3 -> vx = kk(instr)
                             [] opcode(instr) = 4 -> vx # kk(instr)
                             [] opcode(instr) = 5 -> vx = regs[y(instr)]
                             [] opcode(instr) = 9 -> vx # regs[y(instr)]
              IN  /\ pc' = IF holds THEN pc + 2 ELSE pc
                  /\ status' = "Running"
                  /\ UNCHANGED <<regs, mem, i, sp, stack>> ]_vars

\* skip-neq-reg, third word of its program (fetched at 516), has skipped
SkipTaken ==
    /\ Executed /\ opcode(instr) = 9 /\ n(instr) = 0
    /\ regs[x(instr)] # regs[y(instr)] /\ fetches = 3 /\ pc = 520

HexText(words) == [k \in 1..Len(words) |-> Hex(words[k]) \o <<"\n">>]

\* C5: the program of main, loaded into a fresh machine, eventually halts;
\* it halts after exactly five fetches with reg[0] = 0x33, reg[1] = 0x22,
\* reg[15] = 0, and print-regs has written the one byte 33.
ScenarioAHalts ==
    LET vs == HexText(<<24593, 24866, 32788, 61441, 65535>>)
        final == /\ status = "Halted"
                 /\ fetches = 5
                 /\ regs[0] = 51 /\ regs[1] = 34 /\ regs[15] = 0
                 /\ stdout = vs[1] \o vs[2] \o vs[3] \o vs[4] \o <<"3", "3", " ">>
                               \o vs[5] \o ExitingText
    IN  /\ (program = ScenarioA /\ status = "Running") ~> final
        /\ [](program = ScenarioA /\ status \in {"Halted", "Faulted"} => final)

\* the program of main has halted
ScenarioAHalted == program = ScenarioA /\ status = "Halted" /\ regs[0] = 51

\* C6: a word matching no row of the opcode table (an undefined sub-opcode
\* of family 0x8 or 0xF, or 5xyN / 9xyN with N # 0) changes no register,
\* memory, index, sp or stack, leaves pc at old pc + 2 and the machine Running.
UnrecognizedIsNoOp ==
    [][ (/\ Executing
         /\ \/ opcode(instr) = 8 /\ n(instr) \notin (0..7) \cup {14}
            \/ opcode(instr) = 15 /\ n(instr) \notin {0, 1, 2, 15}
            \/ opcode(instr) \in {5, 9} /\ n(instr) # 0) =>
          /\ UNCHANGED <<regs, mem, i, sp, stack, pc>>
          /\ status' = "Running" ]_vars

\* C7: with pc >= 4096 or pc + 1 >= 4096 at the start of a cycle the run
\* faults, no handler runs and registers, memory, index, sp and stack keep
\* their values; otherwise fetch reads mem[pc] and mem[pc + 1], combines
\* them big-endian and advances pc by 2.  A faulted run takes no more steps.
FetchBounds ==
    [][ /\ (status = "Running" /\ at = "fetch") =>
              IF pc >= 4096 \/ pc + 1 >= 4096
              THEN /\ status' = "Faulted"
                   /\ at' = "fetch"
                   /\ UNCHANGED <<regs, mem, i, sp, stack, pc, instr>>
              ELSE /\ status' = "Running"
                   /\ at' = "execute"
                   /\ instr' = MemRead(mem, pc) * 256 + MemRead(mem, pc + 1)
                   /\ pc' = pc + 2
                   /\ UNCHANGED <<regs, mem, i, sp, stack>>
        /\ status = "Faulted" => UNCHANGED vars ]_vars

\* after a jump to 4095 the fetch has faulted: pc + 1 is outside memory
FetchFaultedAtLastByte ==
    status = "Faulted" /\ pc = 4095 /\ instr = 8191 /\ fetches = 2

\* C8: the run enters Halted if and only if the executed word is 0xFFFF,
\* and a halted machine takes no further step.
HaltOnlyOnFFFF ==
    [][ /\ status = "Running" =>
              (status' = "Halted" <=> (at = "execute" /\ instr = 65535))
        /\ status = "Halted" => UNCHANGED vars ]_vars

\* C9: return (opcode 0x0) executed with sp = 0 ends the run in a fatal
\* state; it never keeps running with sp = 255 or any sp outside 0..15.
ReturnOnEmptyStackFatal ==
    [][ (Executing /\ opcode(instr) = 0 /\ sp = 0) => status' = "Faulted" ]_vars

\* C10: add-imm (7xkk) leaves reg[x] = (v + kk) mod 256 and changes no
\* other register, for every x in 0..15; the flag register is written only
\* when x = 15.
AddImmFrame ==
    [][ (Executing /\ opcode(instr) = 7) =>
          /\ regs' = [regs EXCEPT ![x(instr)] = (regs[x(instr)] + kk(instr)) % 256]
          /\ status' = "Running"
          /\ UNCHANGED <<mem, i, sp, stack, pc>> ]_vars

\* 0xFF + 0x01 has wrapped to 0 in reg x while the flag register kept its 1
AddImmWrapped ==
    /\ Executed /\ opcode(instr) = 7 /\ kk(instr) = 1
    /\ x(instr) # 15 /\ regs[x(instr)] = 0 /\ regs[15] = 1

\* C11: bcd (opcode 0xD) with index + 2 < 4096 leaves mem[index] = v div 100,
\* mem[index + 1] = (v div 10) mod 10 and mem[index + 2] = v mod 10, where
\* v = reg[x]; the three digits recompose v; no other memory byte, no
\* register and not the index register changes.
BcdDigits ==
    [][ (Executing /\ opcode(instr) = 13 /\ i + 2 < 4096) =>
          LET v == regs[x(instr)]
          IN  /\ \A a \in 0..4095 :
                    MemRead(mem', a) =
                        CASE a = i -> v \div 100
                          [] a = i + 1 -> (v \div 10) % 10
                          [] a = i + 2 -> v % 10
                          [] OTHER -> MemRead(mem, a)
              /\ 100 * MemRead(mem', i) + 10 * MemRead(mem', i + 1)
                    + MemRead(mem', i + 2) = v
              /\ status' = "Running"
              /\ UNCHANGED <<regs, i, sp, stack, pc>> ]_vars

\* bcd of 205 at 0x600 has written the digits 2, 0, 5
BcdOf205 ==
    /\ Executed /\ opcode(instr) = 13 /\ regs[x(instr)] = 205 /\ i = 1536
    /\ MemRead(mem, 1536) = 2 /\ MemRead(mem, 1537) = 0 /\ MemRead(mem, 1538) = 5

\* C12: for every 16-bit word w, opcode(w) = w div 4096 and w is rebuilt
\* from its fields: w = opcode * 4096 + x * 256 + y * 16 + n,
\* w = opcode * 4096 + nnn and w = opcode * 4096 + x * 256 + kk.  The word
\* is the one fetch has just returned; every 16-bit word is fetched.
DecodeRebuilds ==
    at = "execute" =>
        /\ opcode(instr) = instr \div 4096
        /\ instr = opcode(instr) * 4096 + x(instr) * 256 + y(instr) * 16 + n(instr)
        /\ instr = opcode(instr) * 4096 + nnn(instr)
        /\ instr = opcode(instr) * 4096 + x(instr) * 256 + kk(instr)
        /\ {opcode(instr), x(instr), y(instr), n(instr)} \subseteq 0..15
        /\ kk(instr) \in 0..255
        /\ nnn(instr) \in 0..4095

\* the word 0xA5C3 has been fetched and decodes to A / 5 / C / 3, C3, 5C3
DecodedA5C3 ==
    /\ at = "execute" /\ instr = 42435
    /\ opcode(instr) = 10 /\ x(instr) = 5 /\ y(instr) = 12 /\ n(instr) = 3
    /\ kk(instr) = 195 /\ nnn(instr) = 1475

\* C13: for every pair of bytes (hi, lo), from_bytes([hi, lo]) is
\* hi * 256 + lo and as_bytes gives [hi, lo] back; for every word w,
\* from_bytes(as_bytes(w)) = w.  (hi, lo) are the two bytes fetch has just
\* read, at pc - 2 and pc - 1, and w is the word it made of them.
BytesRoundTrip ==
    (status = "Running" /\ at = "execute") =>
        LET hi == MemRead(mem, pc - 2)
            lo == MemRead(mem, pc - 1)
        IN  /\ instr = hi * 256 + lo
            /\ from_bytes(<<hi, lo>>) = hi * 256 + lo
            /\ as_bytes(instr) = <<hi, lo>>
            /\ from_bytes(as_bytes(instr)) = instr

\* the bytes 0x12, 0xEF have been fetched as the word 0x12EF
Fetched12EF ==
    /\ status = "Running" /\ at = "execute" /\ fetches = 1
    /\ program = <<18, 239>> /\ instr = 4847 /\ as_bytes(instr) = <<18, 239>>

\* C14: load of a program of length L <= 4096 - 512 leaves
\* mem[512 + k] = program[k] for k in 0 .. L - 1, changes no other memory
\* byte and no register, pc, sp, index or stack; a longer program is
\* rejected (the run never starts) and nothing is written outside memory.
LoadImage ==
    [][ status = "New" =>
          /\ UNCHANGED <<regs, i, pc, sp, stack>>
          /\ IF Len(program') <= 4096 - 512
             THEN /\ status' = "Running"
                  /\ \A a \in 0..4095 :
                        MemRead(mem', a) =
                            IF a >= 512 /\ a < 512 + Len(program')
                            THEN program'[a - 512 + 1] ELSE MemRead(mem, a)
             ELSE /\ status' = "Faulted"
                  /\ DOMAIN mem' \subseteq 0..4095 ]_vars

\* the image of 3585 bytes has been rejected; memory ends at its last byte
OversizedRejected ==
    /\ status = "Faulted" /\ fetches = 0 /\ Len(program) = 3585
    /\ MemRead(mem, 4095) = 255 /\ 4096 \notin DOMAIN mem

\* C15: in every reachable state of a Running machine, 0 <= sp < 16.
SpInRange == status = "Running" => sp \in 0..15

\* C16: at every instruction boundary of a Running machine pc lies in
\* [0, 4096) and is even.
PcInRangeAndEven ==
    (status = "Running" /\ at = "fetch") => (pc \in 0..4095 /\ pc % 2 = 0)

\* C17: call (2nnn) fetched at p with sp = k <= 14 leaves sp = k + 1,
\* stack[k + 1] = p + 2 and pc = nnn, the other slots unchanged; return
\* (opcode 0x0) executed with sp = k + 1 leaves pc = stack[k + 1] and sp = k,
\* so with the slot not overwritten it resumes at p + 2.  Fetch takes pc
\* from p to p + 2 before call stores it.
CallReturnPairs ==
    [][ /\ (status = "Running" /\ at = "fetch" /\ status' = "Running") =>
              pc' = pc + 2 /\ UNCHANGED <<sp, stack>>
        /\ (Executing /\ opcode(instr) = 2 /\ sp <= 14) =>
              /\ sp' = sp + 1
              /\ stack' = [stack EXCEPT ![sp + 1] = pc]
              /\ pc' = nnn(instr)
              /\ status' = "Running"
              /\ UNCHANGED <<regs, mem, i>>
        /\ (Executing /\ opcode(instr) = 0 /\ sp \in 1..15) =>
              /\ pc' = stack[sp]
              /\ sp' = sp - 1
              /\ status' = "Running"
              /\ UNCHANGED <<stack, regs, mem, i>> ]_vars

\* the inner return of the nested program: the call at 516 pushed 518 into
\* slot 2, above the 514 of the call at 512, and return has resumed at 518
ReturnedFromInnerCall ==
    /\ Executed /\ opcode(instr) = 0
    /\ stack[1] = 514 /\ stack[2] = 518 /\ sp = 1 /\ pc = 518

\* C18: store-block (Ex) with index + x < 4096 writes mem[index + k] =
\* reg[k] for k in 0..x and changes no other memory byte, no register and
\* not the index register; load-block (Fx0) with index + x < 4096 reads
\* reg[k] = mem[index + k] for k in 0..x and leaves registers x + 1 .. 15,
\* memory and index alone, so that on the memory the store has just left
\* (mem[index + k] = reg[k] for k in 0..x) it leaves every register as it was.
BlockRoundTrip ==
    [][ /\ (Executing /\ opcode(instr) = 14 /\ i + x(instr) < 4096) =>
              /\ \A a \in 0..4095 :
                    MemRead(mem', a) =
                        IF a \in i..(i + x(instr)) THEN regs[a - i]
                        ELSE MemRead(mem, a)
              /\ \A k \in 0..x(instr) : MemRead(mem', i' + k) = regs'[k]
              /\ status' = "Running"
              /\ UNCHANGED <<regs, i, sp, stack, pc>>
        /\ (Executing /\ opcode(instr) = 15 /\ n(instr) = 0 /\ i + x(instr) < 4096) =>
              /\ \A r \in 0..15 :
                    regs'[r] = IF r <= x(instr) THEN MemRead(mem, i + r) ELSE regs[r]
              /\ (\A k \in 0..x(instr) : MemRead(mem, i + k) = regs[k]) => regs' = regs
              /\ status' = "Running"
              /\ UNCHANGED <<mem, i, sp, stack, pc>> ]_vars

\* registers 0 .. 14 were stored at 4080 and loaded back at once: reg 0 and
\* reg 14 hold what they held and what memory holds
BlockRestored ==
    /\ Executed /\ fetches = 5 /\ instr = 65024 /\ i = 4080
    /\ regs[0] = 255 /\ regs[14] = 128
    /\ MemRead(mem, 4080) = 255 /\ MemRead(mem, 4094) = 128

\* C19: bcd, store-block, load-block and print-mem access memory only at
\* addresses in [0, 4096): when index plus the last offset is >= 4096 the
\* run faults, and no byte is written and no register loaded at a wrapped
\* address: a byte that changes lies at index + k, a register that changes
\* is reg[k] loaded from index + k, for an offset k of the instruction.
IndexedAccessInMemory ==
    [][ (/\ Executing
         /\ \/ opcode(instr) \in {13, 14}
            \/ opcode(instr) = 15 /\ n(instr) \in {0, 2}) =>
          LET last == IF opcode(instr) = 13 THEN 2 ELSE x(instr)
          IN  /\ i + last >= 4096 => status' = "Faulted"
              /\ \A a \in 0..4095 :
                    MemRead(mem', a) # MemRead(mem, a) => a \in i..(i + last)
              /\ \A r \in 0..15 :
                    regs'[r] # regs[r] =>
                        /\ opcode(instr) = 15 /\ n(instr) = 0
                        /\ r <= last /\ i + r < 4096
                        /\ regs'[r] = MemRead(mem, i + r) ]_vars

\* C20: call increments sp before it stores.  The machine starts with
\* sp = 0 and stack[0] = 0, and from a running state with sp in 0..15, every
\* step other than a return executed with sp = 0 leaves stack[0] as it is
\* and, if the machine keeps running, leaves sp in 0..15; a call leaves sp
\* in 1..15 with the return address in stack[sp]; a call executed with
\* sp = 15 faults and stores nothing.
UsableStackDepth ==
    /\ (status = "New" => sp = 0 /\ stack[0] = 0)
    /\ [][ (/\ status = "Running"
            /\ sp \in 0..15
            /\ ~(Executing /\ opcode(instr) = 0 /\ sp = 0)) =>
              /\ stack'[0] = stack[0]
              /\ status' = "Running" => sp' \in 0..15
              /\ (Executing /\ opcode(instr) = 2 /\ sp < 15) =>
                    /\ status' = "Running"
                    /\ sp' = sp + 1
                    /\ stack' = [stack EXCEPT ![sp + 1] = pc]
              /\ (Executing /\ opcode(instr) = 2 /\ sp = 15) =>
                    /\ status' = "Faulted"
                    /\ stack' = stack ]_vars

\* the 16th nested call of the program that calls itself has faulted:
\* slots 1..15 hold return addresses, slot 0 was never written
SixteenthCallFaulted ==
    /\ status = "Faulted"
    /\ instr = 8704
    /\ fetches = 16
    /\ \A k \in 1..15 : stack[k] = 514
    /\ stack[0] = 0

====
